---- MODULE Spec2Model ----
(***************************************************************************)
(* Model of src/Main.py: a headless-browser search loop with optional Tor *)
(* identity rotation.  One run of main() is a sequential state machine;   *)
(* the outcomes of the calls into Playwright, stem and the environment    *)
(* are the nondeterministic inputs.                                        *)
(*                                                                         *)
(* The release calls (context.close, browser.close, controller.close,     *)
(* leaving sync_playwright) are taken to return normally.                  *)
(***************************************************************************)
EXTENDS Integers, Sequences, FiniteSets, Bags, TLC

\* ------------------------------------------------------------------ bounds
MaxIter == 3
MaxProxies == 2

\* Python's None, as a proxy selector and as an unset environment variable.
None == "None"
TorSocks == "socks5://127.0.0.1:9050"

\* ------------------------------------------------------------- input domains
ProxyURLs == {"http://a:1", "socks5://b:2", ""}
Queries == {"test", "openai"}
IterationValues == (-1)..MaxIter
EnvValues == {None, "", "secret"}
CallOutcomes == {"ok", "timeout", "error"}

RECURSIVE SeqsUpTo(_, _)
SeqsUpTo(S, n) ==
    IF n = 0 THEN {<< >>}
    ELSE LET shorter == SeqsUpTo(S, n - 1)
         IN shorter \cup {Append(s, x) : s \in {t \in shorter : Len(t) = n - 1}, x \in S}

ProxyLists == SeqsUpTo(ProxyURLs, MaxProxies)

VARIABLES
    query, iterations, proxy_list, use_tor,  \* args (parse_args)
    stem_installed,                          \* Controller is not None
    tor_pass,                                \* os.getenv("TOR_CONTROL_PASSWD")
    pc,                                      \* position in main
    controller,                              \* main's variable: None or a Controller
    torConn,                                 \* state of the control connection
    proxies, i, proxy,                       \* main's locals
    playwright,                              \* the sync_playwright() scope
    browser, context,                        \* new_browser's locals
    launchProxy,                             \* proxy option given to chromium.launch
    orphans,                                 \* browsers launched whose new_context raised
    exc,                                     \* exception in flight
    renewCalls, acquireCalls, yields, searchCalls, closeCalls,
    contextCloses, browserCloses,            \* calls made so far
    selections,                              \* selectors handed to new_browser
    searchQuery,                             \* query of the last run_search call
    log                                      \* printed lines, as a bag of kinds

config == <<query, iterations, proxy_list, use_tor, stem_installed, tor_pass>>
locals == <<controller, torConn, proxies, i, proxy, playwright, browser, context,
            launchProxy, orphans, exc>>
history == <<renewCalls, acquireCalls, yields, searchCalls, closeCalls,
             contextCloses, browserCloses, selections, searchQuery, log>>
vars == <<config, pc, locals, history>>

\* ------------------------------------------------------------ pure helpers
\* Python truthiness of an Optional[str].
Truthy(s) == s # None /\ s # ""

\* print(...): one more line of the given kind.
Printed(l, kind) == l (+) SetToBag({kind})

\* [x] * n
Repeat(x, n) == [k \in 1..(IF n > 0 THEN n ELSE 0) |-> x]

\* range(n)
Range(n) == 0..(n - 1)

BuildProxies_TorPrefersList(tor, n, plist) ==
    IF tor /\ plist = << >> THEN Repeat(TorSocks, n)
    ELSE IF plist # << >> THEN plist ELSE <<None>>

BuildProxies_EmptyIsTor(tor, n, plist) ==
    IF tor THEN Repeat(TorSocks, n)
    ELSE IF plist # << >> THEN plist ELSE <<TorSocks>>

\* Main.py 131-135
BuildProxies(tor, n, plist) ==
    IF tor THEN Repeat(TorSocks, n)
    ELSE IF plist # << >> THEN plist ELSE <<None>>

Select_NoWrap(ps, k) == ps[(IF k < Len(ps) THEN k ELSE Len(ps) - 1) + 1]

\* Main.py 140: proxies[i % len(proxies)]
Select(ps, k) == ps[(k % Len(ps)) + 1]

\* Main.py 45: {"server": proxy} if proxy else None  (the server, or None)
LaunchProxy(p) == IF Truthy(p) THEN p ELSE None

\* Main.py 55-83: the exception run_search ends with ("none": it returns),
\* from the outcomes of its calls, and whether it prints the no-result warning.
\*   goto    : new_page + page.goto(timeout=45 s)
\*   consent : query_selector + click of the consent button; a timeout is swallowed
\*   fill    : page.fill + page.press
\*   wait    : wait_for_selector("h3", timeout=20 s)
\*   first   : query_selector("h3") finds an element ("none": it does not)
\*   click   : first_result.click()
SearchResult(goto, consent, fill, wait, first, click) ==
    IF goto # "ok" THEN [exc |-> goto, warn |-> FALSE]
    ELSE IF consent = "error" THEN [exc |-> "error", warn |-> FALSE]
    ELSE IF fill # "ok" THEN [exc |-> fill, warn |-> FALSE]
    ELSE IF wait # "ok" THEN [exc |-> wait, warn |-> FALSE]
    ELSE IF first = "error" THEN [exc |-> "error", warn |-> FALSE]
    ELSE IF first = "none" THEN [exc |-> "none", warn |-> TRUE]
    ELSE IF click # "ok" THEN [exc |-> click, warn |-> FALSE]
    ELSE [exc |-> "none", warn |-> FALSE]

\* Every way run_search can end, over the outcomes of its calls.
SearchResults ==
    {SearchResult(goto, consent, fill, wait, first, click) :
        goto \in CallOutcomes, consent \in CallOutcomes, fill \in CallOutcomes,
        wait \in CallOutcomes, first \in {"found", "none", "error"},
        click \in CallOutcomes}

\* ------------------------------------------------------------------- Init
Init ==
    /\ query \in Queries
    /\ iterations \in IterationValues
    /\ proxy_list \in ProxyLists
    /\ use_tor \in BOOLEAN
    /\ stem_installed \in BOOLEAN
    /\ tor_pass \in EnvValues
    /\ pc = "tor"
    /\ controller = None
    /\ torConn = "none"
    /\ proxies = << >>
    /\ i = 0
    /\ proxy = None
    /\ playwright = "none"
    /\ browser = "none"
    /\ context = "none"
    /\ launchProxy = None
    /\ orphans = 0
    /\ exc = "none"
    /\ renewCalls = 0
    /\ acquireCalls = 0
    /\ yields = 0
    /\ searchCalls = 0
    /\ closeCalls = 0
    /\ contextCloses = 0
    /\ browserCloses = 0
    /\ selections = << >>
    /\ searchQuery = None
    /\ log = EmptyBag

\* ----------------------------------------------------------------- actions
\* Main.py 112-128: open and authenticate the control channel, or controller = None.
TorSetup_IgnoresFailure ==
    /\ pc = "tor"
    /\ IF use_tor /\ stem_installed /\ Truthy(tor_pass)
       THEN \E connect \in BOOLEAN, auth \in BOOLEAN :
              IF connect /\ auth
              THEN /\ torConn' = "authenticated"
                   /\ controller' = "Controller"
                   /\ log' = Printed(log, "authenticated")
                   /\ pc' = "build"
                   /\ exc' = exc
              ELSE /\ torConn' = IF connect THEN "connected" ELSE torConn
                   /\ exc' = "RuntimeError"
                   /\ pc' = "aborted"
                   /\ UNCHANGED <<controller, log>>
       ELSE /\ controller' = None
            /\ pc' = "build"
            /\ UNCHANGED <<torConn, exc, log>>
    /\ UNCHANGED <<config, proxies, i, proxy, playwright, browser, context,
                   launchProxy, orphans>>
    /\ UNCHANGED <<renewCalls, acquireCalls, yields, searchCalls, closeCalls,
                   contextCloses, browserCloses, selections, searchQuery>>

TorSetup ==
    /\ pc = "tor"
    /\ IF use_tor
       THEN IF ~stem_installed \/ ~Truthy(tor_pass)
            THEN /\ exc' = "RuntimeError"
                 /\ pc' = "aborted"
                 /\ UNCHANGED <<controller, torConn, log>>
            ELSE \E connect \in BOOLEAN, auth \in BOOLEAN :
                   IF connect /\ auth
                   THEN /\ torConn' = "authenticated"
                        /\ controller' = "Controller"
                        /\ log' = Printed(log, "authenticated")
                        /\ pc' = "build"
                        /\ exc' = exc
                   ELSE /\ torConn' = IF connect THEN "connected" ELSE torConn
                        /\ exc' = "RuntimeError"
                        /\ pc' = "aborted"
                        /\ UNCHANGED <<controller, log>>
       ELSE /\ controller' = None
            /\ pc' = "build"
            /\ UNCHANGED <<torConn, exc, log>>
    /\ UNCHANGED <<config, proxies, i, proxy, playwright, browser, context,
                   launchProxy, orphans>>
    /\ UNCHANGED <<renewCalls, acquireCalls, yields, searchCalls, closeCalls,
                   contextCloses, browserCloses, selections, searchQuery>>

\* Main.py 131-135
BuildPlan ==
    /\ pc = "build"
    /\ proxies' = BuildProxies(use_tor, iterations, proxy_list)
    /\ pc' = "playwright"
    /\ UNCHANGED <<config, controller, torConn, i, proxy, playwright, browser,
                   context, launchProxy, orphans, exc, history>>

\* Main.py 138: entering `with sync_playwright() as p`
StartPlaywright ==
    /\ pc = "playwright"
    /\ \E started \in BOOLEAN :
         IF started
         THEN /\ playwright' = "started"
              /\ i' = 0
              /\ pc' = "for"
              /\ exc' = exc
         ELSE /\ exc' = "error"
              /\ pc' = "aborted"
              /\ UNCHANGED <<playwright, i>>
    /\ UNCHANGED <<config, controller, torConn, proxies, proxy, browser, context,
                   launchProxy, orphans, history>>

\* Main.py 139-140: the loop test and the iteration's selector
ForLoop ==
    /\ pc = "for"
    /\ IF i \in Range(iterations)
       THEN /\ proxy' = Select(proxies, i)
            /\ pc' = "renew"
       ELSE /\ pc' = "exit_with"
            /\ proxy' = proxy
    /\ UNCHANGED <<config, controller, torConn, proxies, i, playwright, browser,
                   context, launchProxy, orphans, exc, history>>

Renew_FailureAborts ==
    /\ pc = "renew"
    /\ IF controller # None
       THEN /\ renewCalls' = renewCalls + 1
            /\ \E sent \in BOOLEAN :
                 IF sent
                 THEN /\ log' = Printed(Printed(log, "newnym_sent"), "iteration")
                      /\ pc' = "launch"
                      /\ exc' = exc
                 ELSE /\ log' = log
                      /\ exc' = "error"
                      /\ pc' = "exit_with"
       ELSE /\ log' = Printed(log, "iteration")
            /\ pc' = "launch"
            /\ UNCHANGED <<renewCalls, exc>>
    /\ UNCHANGED <<config, controller, torConn, proxies, i, proxy, playwright,
                   browser, context, launchProxy, orphans>>
    /\ UNCHANGED <<acquireCalls, yields, searchCalls, closeCalls, contextCloses,
                   browserCloses, selections, searchQuery>>

Renew_OnlyFirstIteration ==
    /\ pc = "renew"
    /\ IF controller # None /\ i = 0
       THEN /\ renewCalls' = renewCalls + 1
            /\ \E sent \in BOOLEAN :
                 log' = Printed(Printed(log, IF sent THEN "newnym_sent" ELSE "newnym_failed"),
                                "iteration")
       ELSE /\ log' = Printed(log, "iteration")
            /\ UNCHANGED renewCalls
    /\ pc' = "launch"
    /\ UNCHANGED <<config, locals>>
    /\ UNCHANGED <<acquireCalls, yields, searchCalls, closeCalls, contextCloses,
                   browserCloses, selections, searchQuery>>

\* Main.py 143-151: the renewal signal (any Exception is logged and dropped),
\* then the iteration banner.
Renew ==
    /\ pc = "renew"
    /\ IF controller # None
       THEN /\ renewCalls' = renewCalls + 1
            /\ \E sent \in BOOLEAN :
                 log' = Printed(Printed(log, IF sent THEN "newnym_sent" ELSE "newnym_failed"),
                                "iteration")
       ELSE /\ log' = Printed(log, "iteration")
            /\ UNCHANGED renewCalls
    /\ pc' = "launch"
    /\ UNCHANGED <<config, locals>>
    /\ UNCHANGED <<acquireCalls, yields, searchCalls, closeCalls, contextCloses,
                   browserCloses, selections, searchQuery>>

\* Main.py 153, 41-46: new_browser(p, proxy) is entered and launches the browser.
Launch ==
    /\ pc = "launch"
    /\ acquireCalls' = acquireCalls + 1
    /\ selections' = Append(selections, proxy)
    /\ launchProxy' = LaunchProxy(proxy)
    /\ \E outcome \in CallOutcomes :
         IF outcome = "ok"
         THEN /\ browser' = "open"
              /\ pc' = "new_context"
              /\ exc' = exc
         ELSE /\ exc' = outcome
              /\ pc' = "except"
              /\ browser' = browser
    /\ UNCHANGED <<config, controller, torConn, proxies, i, proxy, playwright,
                   context, orphans>>
    /\ UNCHANGED <<renewCalls, yields, searchCalls, closeCalls, contextCloses,
                   browserCloses, searchQuery, log>>

\* Main.py 47-49: browser.new_context(), then the yield.  A raise at line 47 is
\* outside the try: the launched browser is never closed.
NewContext ==
    /\ pc = "new_context"
    /\ \E outcome \in CallOutcomes :
         IF outcome = "ok"
         THEN /\ context' = "open"
              /\ yields' = yields + 1
              /\ pc' = "search"
              /\ UNCHANGED <<browser, orphans, exc>>
         ELSE /\ browser' = "none"
              /\ orphans' = orphans + 1
              /\ exc' = outcome
              /\ pc' = "except"
              /\ UNCHANGED <<context, yields>>
    /\ UNCHANGED <<config, controller, torConn, proxies, i, proxy, playwright,
                   launchProxy>>
    /\ UNCHANGED <<renewCalls, acquireCalls, searchCalls, closeCalls, contextCloses,
                   browserCloses, selections, searchQuery, log>>

\* Main.py 154, 55-83: run_search(ctx, args.query)
RunSearch ==
    /\ pc = "search"
    /\ searchCalls' = searchCalls + 1
    /\ searchQuery' = query
    /\ \E r \in SearchResults :
         /\ exc' = r.exc
         /\ log' = IF r.warn THEN Printed(log, "warn_no_results") ELSE log
    /\ pc' = "finally"
    /\ UNCHANGED <<config, controller, torConn, proxies, i, proxy, playwright,
                   browser, context, launchProxy, orphans>>
    /\ UNCHANGED <<renewCalls, acquireCalls, yields, closeCalls, contextCloses,
                   browserCloses, selections>>

ReleaseBrowser_LeakOnError ==
    /\ pc = "finally"
    /\ context' = "closed"
    /\ contextCloses' = contextCloses + 1
    /\ IF exc = "none"
       THEN browser' = "closed" /\ browserCloses' = browserCloses + 1
       ELSE UNCHANGED <<browser, browserCloses>>
    /\ pc' = "except"
    /\ UNCHANGED <<config, controller, torConn, proxies, i, proxy, playwright,
                   launchProxy, orphans, exc>>
    /\ UNCHANGED <<renewCalls, acquireCalls, yields, searchCalls, closeCalls,
                   selections, searchQuery, log>>

\* Main.py 50-52: new_browser's finally
ReleaseBrowser ==
    /\ pc = "finally"
    /\ context' = "closed"
    /\ contextCloses' = contextCloses + 1
    /\ browser' = "closed"
    /\ browserCloses' = browserCloses + 1
    /\ pc' = "except"
    /\ UNCHANGED <<config, controller, torConn, proxies, i, proxy, playwright,
                   launchProxy, orphans, exc>>
    /\ UNCHANGED <<renewCalls, acquireCalls, yields, searchCalls, closeCalls,
                   selections, searchQuery, log>>

EndIteration_TimeoutPropagates ==
    /\ pc = "except"
    /\ IF exc = "none"
       THEN /\ i' = i + 1
            /\ pc' = "for"
            /\ UNCHANGED <<exc, log>>
       ELSE /\ pc' = "exit_with"
            /\ UNCHANGED <<i, exc, log>>
    /\ UNCHANGED <<config, controller, torConn, proxies, proxy, playwright,
                   browser, context, launchProxy, orphans>>
    /\ UNCHANGED <<renewCalls, acquireCalls, yields, searchCalls, closeCalls,
                   contextCloses, browserCloses, selections, searchQuery>>

EndIteration_CatchesAll ==
    /\ pc = "except"
    /\ IF exc = "none"
       THEN /\ i' = i + 1
            /\ pc' = "for"
            /\ UNCHANGED <<exc, log>>
       ELSE /\ log' = Printed(log, "timeout")
            /\ exc' = "none"
            /\ i' = i + 1
            /\ pc' = "for"
    /\ UNCHANGED <<config, controller, torConn, proxies, proxy, playwright,
                   browser, context, launchProxy, orphans>>
    /\ UNCHANGED <<renewCalls, acquireCalls, yields, searchCalls, closeCalls,
                   contextCloses, browserCloses, selections, searchQuery>>

\* Main.py 152-156: the end of the try statement.  A PlaywrightTimeoutError is
\* printed and dropped; anything else leaves the loop.
EndIteration ==
    /\ pc = "except"
    /\ IF exc = "none"
       THEN /\ i' = i + 1
            /\ pc' = "for"
            /\ UNCHANGED <<exc, log>>
       ELSE IF exc = "timeout"
       THEN /\ log' = Printed(log, "timeout")
            /\ exc' = "none"
            /\ i' = i + 1
            /\ pc' = "for"
       ELSE /\ pc' = "exit_with"
            /\ UNCHANGED <<i, exc, log>>
    /\ UNCHANGED <<config, controller, torConn, proxies, proxy, playwright,
                   browser, context, launchProxy, orphans>>
    /\ UNCHANGED <<renewCalls, acquireCalls, yields, searchCalls, closeCalls,
                   contextCloses, browserCloses, selections, searchQuery>>

\* Main.py 138: leaving the `with sync_playwright()` block.  An exception in
\* flight goes on out of main, past lines 158-161.
ExitPlaywright ==
    /\ pc = "exit_with"
    /\ playwright' = "stopped"
    /\ pc' = IF exc = "none" THEN "cleanup" ELSE "aborted"
    /\ UNCHANGED <<config, controller, torConn, proxies, i, proxy, browser,
                   context, launchProxy, orphans, exc, history>>

\* Main.py 158-161
Cleanup ==
    /\ pc = "cleanup"
    /\ IF controller # None
       THEN /\ torConn' = "closed"
            /\ closeCalls' = closeCalls + 1
            /\ log' = Printed(log, "closed")
       ELSE UNCHANGED <<torConn, closeCalls, log>>
    /\ pc' = "done"
    /\ UNCHANGED <<config, controller, proxies, i, proxy, playwright, browser,
                   context, launchProxy, orphans, exc>>
    /\ UNCHANGED <<renewCalls, acquireCalls, yields, searchCalls, contextCloses,
                   browserCloses, selections, searchQuery>>

Next ==
    \/ TorSetup
    \/ BuildPlan
    \/ StartPlaywright
    \/ ForLoop
    \/ Renew
    \/ Launch
    \/ NewContext
    \/ RunSearch
    \/ ReleaseBrowser
    \/ EndIteration
    \/ ExitPlaywright
    \/ Cleanup

Spec == Init /\ [][Next]_vars

\* main has returned or raised.
Ended == pc \in {"done", "aborted"}

\* Lines of a kind printed so far.
Lines(kind) == CopiesIn(kind, log)

\* The step is a renewal signal that failed: a call, and no success line.
RenewFailedStep ==
    /\ renewCalls' = renewCalls + 1
    /\ CopiesIn("newnym_sent", log') = CopiesIn("newnym_sent", log)

\* A browser session (new_browser's yielded context and its browser) is live.
SessionLive == context = "open" \/ browser = "open"

\* ------------------------------------------------------------------ claims

\* C1: in a --tor run whose control channel was opened and authenticated,
\* controller.close() has been called exactly once when main ends, however the
\* iteration loop ended (completion, timeouts, an uncaught non-timeout error).
C1_CloseExactlyOnce ==
    (Ended /\ controller = "Controller" /\ playwright = "stopped") => closeCalls = 1

C3_RenewFailureNonFatal ==
    /\ [][RenewFailedStep =>
            /\ CopiesIn("newnym_failed", log') = CopiesIn("newnym_failed", log) + 1
            /\ exc' = "none"
            /\ pc' = "launch"
            /\ i' = i
            /\ proxy' = proxy /\ proxy = TorSocks]_vars
    /\ [][pc = "launch" =>
            /\ acquireCalls' = acquireCalls + 1
            /\ selections' = Append(selections, proxy)
            /\ i' = i]_vars

C3_Witness ==
    /\ pc = "search" /\ i = 1
    /\ Lines("newnym_failed") = 2 /\ launchProxy = TorSocks /\ acquireCalls = 2

\* C4: with --tor, a control channel that cannot be opened (stem missing,
\* TOR_CONTROL_PASSWD unset or empty, connect or authenticate failing) ends the
\* run with an error before any iteration: no browser acquisition, no renewal
\* signal, no search task.
C4_OpenFailureAborts ==
    (use_tor /\ pc # "tor"
       /\ (~stem_installed \/ ~Truthy(tor_pass) \/ torConn \in {"none", "connected"}))
    => /\ pc = "aborted"
       /\ exc = "RuntimeError"
       /\ controller = None
       /\ playwright = "none"
       /\ acquireCalls = 0 /\ yields = 0 /\ renewCalls = 0 /\ searchCalls = 0
       /\ closeCalls = 0

C4_Witness ==
    /\ pc = "aborted" /\ use_tor /\ stem_installed /\ tor_pass = None
    /\ iterations >= 1 /\ acquireCalls = 0

\* C5: without --tor and with a non-empty proxy list, the selector handed to
\* new_browser in iteration k is proxy_list[k mod len(proxy_list)].
C5_CyclicSelection ==
    (~use_tor /\ proxy_list # << >>) =>
       /\ \A k \in 1..Len(selections) :
             selections[k] = proxy_list[((k - 1) % Len(proxy_list)) + 1]
       /\ pc \in {"renew", "launch"} =>
             /\ Len(selections) = i
             /\ proxy = proxy_list[(i % Len(proxy_list)) + 1]

C5_Witness ==
    /\ ~use_tor /\ Len(proxy_list) = 2 /\ proxy_list[1] # proxy_list[2]
    /\ Len(selections) = 3 /\ selections[3] = proxy_list[1]

\* C6: with --tor, the selector of every iteration is the fixed Tor SOCKS
\* address, whatever the proxy list holds; no entry of the list is used.
C6_TorSelectorFixed ==
    use_tor =>
       /\ \A k \in 1..Len(selections) : selections[k] = TorSocks
       /\ pc \in {"renew", "launch"} => proxy = TorSocks
       /\ acquireCalls > 0 => launchProxy = TorSocks

C6_Witness ==
    /\ use_tor /\ Len(proxy_list) = 2 /\ Len(selections) = 3
    /\ launchProxy = TorSocks

C9_RenewalOrder ==
    /\ [](controller = "Controller" =>
            /\ renewCalls = acquireCalls + (IF pc = "launch" THEN 1 ELSE 0)
            /\ pc = "renew" => renewCalls = i
            /\ pc = "launch" => (renewCalls = i + 1 /\ acquireCalls = i)
            /\ Lines("newnym_sent") + Lines("newnym_failed") = renewCalls)
    /\ [][renewCalls' # renewCalls =>
            /\ renewCalls' = renewCalls + 1
            /\ ~SessionLive
            /\ torConn = "authenticated" /\ torConn' = "authenticated"
            /\ closeCalls = 0]_vars
    /\ [](~use_tor => (controller = None /\ torConn = "none" /\ renewCalls = 0
                         /\ closeCalls = 0 /\ Lines("authenticated") = 0))

C9_Witness ==
    /\ use_tor /\ pc = "launch" /\ i = 2 /\ renewCalls = 3 /\ acquireCalls = 2
    /\ browserCloses = 2

\* C10: a non-timeout error raised by the search task or the browser
\* acquisition of an iteration is not caught: it leaves main after that
\* iteration's session was released, and no later iteration runs.
C10_ErrorPropagates ==
    /\ [][(pc = "except" /\ exc = "error") =>
            /\ ~SessionLive
            /\ contextCloses = yields /\ browserCloses = yields
            /\ pc' = "exit_with"
            /\ exc' = "error"
            /\ UNCHANGED <<i, history>>]_vars
    /\ [][(pc = "exit_with" /\ exc = "error") =>
            /\ pc' = "aborted"
            /\ exc' = "error"
            /\ UNCHANGED <<i, history>>]_vars
    /\ [][pc # "aborted"]_vars
    /\ [](pc \in {"for", "renew"} => exc = "none")

C10_Witness ==
    /\ pc = "aborted" /\ exc = "error" /\ i = 1 /\ iterations = 3
    /\ yields = 2 /\ browserCloses = 2 /\ acquireCalls = 2 /\ searchCalls = 2

====
